---- MODULE Spec2Model ----
(***************************************************************************)
(* Model of the fingerprint store and matcher of the shazam-clone backend  *)
(* (backend/app/database.py, backend/app/models.py).                       *)
(*                                                                         *)
(* The store is the committed content of the two tables, songs and         *)
(* fingerprints.  Every DatabaseManager call runs in its own session (one  *)
(* transaction); a call is a process whose steps are the statements the    *)
(* session sends to the database, so that calls interleave between         *)
(* statements as the request-parallel server and the parallel uploader     *)
(* make them.                                                              *)
(***************************************************************************)
EXTENDS Integers, Sequences, FiniteSets, TLC

(***************************************************************************)
(* Bounds of the model.                                                    *)
(***************************************************************************)
MaxProcs == 2
MaxSongId == 2
MaxRows == 2
MaxMatchSongs == 2
MaxQueryLen == 1201
MaxRun == 60
MaxBins == 4
MaxFrames == 82
MaxTeeth == 3

(***************************************************************************)
(* Constants of find_matches.                                              *)
(***************************************************************************)
EXPECTED_GOOD_MATCH == 100
MAX_QUERY_FINGERPRINTS == 400
BATCH_SIZE == 100
EARLY_EXIT == 80
\* int(EXPECTED_GOOD_MATCH * 0.05): 100 * 0.05 is 5.0 in binary floating point
MIN_MATCHING_FINGERPRINTS == (EXPECTED_GOOD_MATCH * 5) \div 100
\* MIN_MATCH_PERCENTAGE * 100 = 0.05 * 100 = 5.0
MIN_CONFIDENCE_PERCENTAGE == 5

None == "None"

\* What a call returned: nothing (None), a song id, the two counts, or the
\* exception that left the call; msg is the line the call printed last.
RetNone == [kind |-> "None", id |-> 0, total_songs |-> 0, total_fingerprints |-> 0,
            error |-> "", msg |-> ""]
RetId(id, msg) == [RetNone EXCEPT !.kind = "id", !.id = id, !.msg = msg]
RetStats(ns, nf) == [RetNone EXCEPT !.kind = "stats", !.total_songs = ns,
                                    !.total_fingerprints = nf]
Printed(msg) == [RetNone EXCEPT !.msg = msg]
Raised(error) == [RetNone EXCEPT !.kind = "raised", !.error = error]

Procs == 1..MaxProcs
\* the alphabet of the fingerprints: two hashes, two frame offsets
Hashes == {"a", "b"}
Offsets == {0, 1}
Titles == {"T1", "T2"}

\* a (hash, time_offset) tuple as the fingerprinter emits it
Tuple(h, t) == <<h, t>>
Tuples == Hashes \X Offsets

(***************************************************************************)
(* The files add_song is given.  Two of them hold the same bytes.          *)
(***************************************************************************)
NoPath == "NoPath"
FilePaths == {"a.mp3", "copy_of_a.mp3", "b.mp3"}
ExistingPaths == {"a.mp3", "copy_of_a.mp3", "b.mp3"}
FileBytes(path) == IF path = "b.mp3" THEN 2 ELSE 1

NoDigest == <<"None", 0>>

\* SHA-256 of the file's bytes: equal bytes give equal digests, different
\* bytes different ones; no digest for no path or a path that does not exist
generate_file_hash(filepath) ==
    IF filepath = NoPath \/ filepath \notin ExistingPaths
    THEN NoDigest
    ELSE <<"sha256", FileBytes(filepath)>>

\* What the callers of add_song pass with a file: the fingerprints they
\* extracted from it and the title they read from its name or its tags.  The
\* copy holds the bytes of a.mp3 and is uploaded under another title.
fingerprint_file(filepath) ==
    IF filepath = "b.mp3"
    THEN <<Tuple("a", 0), Tuple("b", 1)>>
    ELSE IF filepath = "silence.mp3"
    THEN <<>>
    ELSE <<Tuple("a", 0)>>
TitleOf(filepath) == IF filepath = "copy_of_a.mp3" THEN "T2" ELSE "T1"

VARIABLES
    songs,          \* committed rows of table songs: [id, title, file_hash]
    fingerprints,   \* committed rows of table fingerprints, grouped by song
    next_song_id,   \* the sequence behind songs.id
    pc,             \* per call: the statement it is about to send
    call,           \* per call: operation and arguments
    session,        \* per call: the uncommitted writes of its transaction
    ret,            \* per call: what it returned (or Raised)
    has_stats_cache, \* whether the attribute _stats_cache exists on the manager
    m_pc,           \* find_matches: where the call stands
    query_fingerprints,   \* find_matches: its argument
    sampled_fingerprints, \* find_matches: the retained query
    batches_processed,    \* find_matches: batches looked up so far
    matches,        \* find_matches: {song_id: {time_delta: count}}, in insertion order
    result,         \* find_matches: what the call returned
    full_batches,   \* the same call with the early exit disabled: batches done
    full_matches,   \* the same call with the early exit disabled: its matches
    h_pc,           \* the request handler: the statement it is about to run
    request,        \* the request being handled
    tmp_exists,     \* whether the temporary file of the request is on disk
    response,       \* the response of the request, status_code 0 before it
    store_before,   \* the two tables as the request found them
    deleted,        \* the ids whose deletion the store has reported
    f_pc,           \* the fingerprinter: where fingerprint_audio stands
    spectrogram,    \* the fingerprinter: the array find_peaks is given
    peaks,          \* the fingerprinter: the landmark list of find_peaks
    hashes,         \* the fingerprinter: the tuples of generate_hashes
    audio_files,    \* the batch uploader: the files no worker has taken yet
    task,           \* the batch uploader: per worker, the file it processes
    stats,          \* the batch uploader: the counts of the summary
    outcome         \* the batch uploader: per file, its status and message

store_vars == <<songs, fingerprints, next_song_id, pc, call, session, ret,
                has_stats_cache>>
match_vars == <<m_pc, query_fingerprints, sampled_fingerprints, batches_processed,
                matches, result, full_batches, full_matches>>
api_vars == <<h_pc, request, tmp_exists, response, store_before, deleted>>
fp_vars == <<f_pc, spectrogram, peaks, hashes>>
batch_vars == <<audio_files, task, stats, outcome>>
\* the fingerprinter and the batch uploader run outside the server
offline_vars == <<fp_vars, batch_vars>>
vars == <<store_vars, match_vars, api_vars, offline_vars>>

NoCall == [op |-> "none", title |-> None, filepath |-> NoPath,
           fingerprints |-> <<>>, song_id |-> 0]
\* song: the pending songs row, if any
NoSession == [song |-> {}, fingerprints |-> <<>>]

SongIds == {s.id : s \in songs}
SongById(id) == CHOOSE s \in songs : s.id = id

\* the rows of a fingerprint list once inserted for a song
FingerprintDicts(fps, id) ==
    [i \in 1..Len(fps) |->
        [hash_value |-> fps[i][1], time_offset |-> fps[i][2], song_id |-> id]]

\* the (hash, time_offset) list stored for a song, in insertion order
StoredTuples(id) ==
    LET rows == SelectSeq(fingerprints, LAMBDA r : r.song_id = id)
    IN  [i \in 1..Len(rows) |-> Tuple(rows[i].hash_value, rows[i].time_offset)]

\* A Python float that lies within one unit in the last place of an integer:
\* the integer, and the signed number of units it lies beside it.
Float(units, ulps) == [units |-> units, ulps |-> ulps]
\* x < n for a float x and an integer n
FloatLess(x, n) == x.units < n \/ (x.units = n /\ x.ulps < 0)

\* no find_matches call yet
NoResult == [matched |-> FALSE, song_id |-> 0, title |-> None, confidence |-> 0,
             total_query_prints |-> 0, alignment_offset |-> 0,
             confidence_percentage |-> Float(0, 0)]

\* a request, and the response to it
NoRequest == [endpoint |-> "none", file_ext |-> "", content |-> NoPath,
              recording |-> <<>>,
              song_id |-> 0]
NoResponse == [status_code |-> 0, detail |-> "", matched |-> FALSE, song_id |-> 0,
               title |-> None, confidence |-> 0,
               confidence_percentage |-> Float(0, 0)]

\* no request yet
ApiInit ==
    /\ h_pc = "idle"
    /\ request = NoRequest
    /\ tmp_exists = FALSE
    /\ response = NoResponse
    /\ store_before = <<{}, <<>>>>
    /\ deleted = {}

\* no spectrogram given yet, no batch started
NoSpectrogram == <<>>
NoStats == [total |-> 0, added |-> 0, skipped |-> 0, failed |-> 0]
OfflineInit ==
    /\ f_pc = "idle"
    /\ spectrogram = NoSpectrogram
    /\ peaks = <<>>
    /\ hashes = <<>>
    /\ audio_files = <<>>
    /\ task = [p \in Procs |-> NoPath]
    /\ stats = NoStats
    /\ outcome = <<>>

MatchInit ==
    /\ m_pc = "idle"
    /\ query_fingerprints = <<>>
    /\ sampled_fingerprints = <<>>
    /\ batches_processed = 0
    /\ matches = <<>>
    /\ result = NoResult
    /\ full_batches = 0
    /\ full_matches = <<>>

Init ==
    /\ MatchInit
    /\ ApiInit
    /\ OfflineInit
    /\ songs = {}
    /\ fingerprints = <<>>
    /\ next_song_id = 1
    /\ pc = [p \in Procs |-> "idle"]
    /\ call = [p \in Procs |-> NoCall]
    /\ session = [p \in Procs |-> NoSession]
    /\ ret = [p \in Procs |-> RetNone]
    /\ has_stats_cache = FALSE

Free(p) == pc[p] \in {"idle", "done"}

(***************************************************************************)
(* add_song                                                                *)
(***************************************************************************)
\* a caller enters add_song: session = self.get_session()
add_song_call(p) ==
    /\ Free(p)
    /\ \E filepath \in FilePaths \cup {NoPath} :
          call' = [call EXCEPT ![p] =
                      [op |-> "add_song", title |-> TitleOf(filepath),
                       filepath |-> filepath,
                       fingerprints |-> fingerprint_file(filepath), song_id |-> 0]]
    /\ pc' = [pc EXCEPT ![p] = "add_check"]
    /\ ret' = [ret EXCEPT ![p] = RetNone]
    /\ session' = [session EXCEPT ![p] = NoSession]
    /\ UNCHANGED <<offline_vars, songs, fingerprints, next_song_id, has_stats_cache, match_vars, api_vars>>

\* the duplicate check made on the title instead of the digest
add_song_check_by_title(p) ==
    /\ pc[p] = "add_check"
    /\ LET file_hash == generate_file_hash(call[p].filepath)
           existing == {s \in songs : s.title = call[p].title}
       IN  IF file_hash # NoDigest /\ existing # {}
           THEN /\ \E s \in existing :
                      ret' = [ret EXCEPT ![p] = RetId(s.id, "Song already exists")]
                /\ pc' = [pc EXCEPT ![p] = "done"]
           ELSE /\ pc' = [pc EXCEPT ![p] = "add_flush"]
                /\ ret' = ret
    /\ UNCHANGED <<offline_vars, songs, fingerprints, next_song_id, call, session, has_stats_cache, match_vars, api_vars>>

\* the duplicate check: SELECT ... WHERE file_hash = :h, first()
add_song_check(p) ==
    /\ pc[p] = "add_check"
    /\ LET file_hash == generate_file_hash(call[p].filepath)
           existing == {s \in songs : s.file_hash = file_hash}
       IN  IF file_hash # NoDigest /\ existing # {}
           THEN /\ \E s \in existing : ret' = [ret EXCEPT ![p] = RetId(s.id, "Song already exists")]
                /\ pc' = [pc EXCEPT ![p] = "done"]
           ELSE /\ pc' = [pc EXCEPT ![p] = "add_flush"]
                /\ ret' = ret
    /\ UNCHANGED <<offline_vars, songs, fingerprints, next_song_id, call, session, has_stats_cache, match_vars, api_vars>>

\* the exception path of add_song: session.rollback(), raise
add_song_rollback(p, error) ==
    /\ session' = [session EXCEPT ![p] = NoSession]
    /\ ret' = [ret EXCEPT ![p] = Raised(error)]
    /\ pc' = [pc EXCEPT ![p] = "done"]

\* the song row committed on its own, before the fingerprints are inserted
add_song_flush_autocommit(p) ==
    /\ pc[p] = "add_flush"
    /\ next_song_id <= MaxSongId
    /\ LET file_hash == generate_file_hash(call[p].filepath)
       IN  /\ next_song_id' = next_song_id + 1
           /\ IF file_hash = NoDigest \/ \E s \in songs : s.file_hash = file_hash
              THEN /\ add_song_rollback(p, "IntegrityError")
                   /\ call' = call
                   /\ songs' = songs
              ELSE /\ songs' = songs \cup
                          {[id |-> next_song_id, title |-> call[p].title,
                            file_hash |-> file_hash]}
                   /\ session' = session
                   /\ call' = [call EXCEPT ![p].song_id = next_song_id]
                   /\ pc' = [pc EXCEPT ![p] = "add_bulk"]
                   /\ ret' = ret
    /\ UNCHANGED <<offline_vars, fingerprints, has_stats_cache, match_vars, api_vars>>

\* session.add(song); session.flush(): INSERT INTO songs inside the open
\* transaction.  file_hash is NOT NULL and UNIQUE: a NULL digest or a digest
\* of a committed row is an IntegrityError; the INSERT waits while another
\* open transaction holds a row with the same digest.
add_song_flush(p) ==
    /\ pc[p] = "add_flush"
    /\ next_song_id <= MaxSongId
    /\ LET file_hash == generate_file_hash(call[p].filepath)
       IN  /\ \A q \in Procs \ {p} :
                 \A s \in session[q].song : s.file_hash # file_hash
           /\ next_song_id' = next_song_id + 1
           /\ IF file_hash = NoDigest \/ \E s \in songs : s.file_hash = file_hash
              THEN /\ add_song_rollback(p, "IntegrityError")
                   /\ call' = call
              ELSE /\ session' = [session EXCEPT ![p].song =
                          {[id |-> next_song_id, title |-> call[p].title,
                            file_hash |-> file_hash]}]
                   /\ call' = [call EXCEPT ![p].song_id = next_song_id]
                   /\ pc' = [pc EXCEPT ![p] = "add_bulk"]
                   /\ ret' = ret
    /\ UNCHANGED <<offline_vars, songs, fingerprints, has_stats_cache, match_vars, api_vars>>

\* session.bulk_insert_mappings(Fingerprint, fingerprint_dicts)
add_song_bulk_insert(p) ==
    /\ pc[p] = "add_bulk"
    /\ session' = [session EXCEPT ![p].fingerprints =
                      FingerprintDicts(call[p].fingerprints, call[p].song_id)]
    /\ pc' = [pc EXCEPT ![p] = "add_commit"]
    /\ UNCHANGED <<offline_vars, songs, fingerprints, next_song_id, call, ret, has_stats_cache, match_vars, api_vars>>

\* The table is a heap that no statement reads in order: its rows are kept
\* grouped by song_id, a song's rows in the order of their insertion.
InsertRows(table, rows) ==
    IF rows = <<>>
    THEN table
    ELSE LET id == rows[1].song_id
         IN  SelectSeq(table, LAMBDA r : r.song_id <= id) \o rows
                 \o SelectSeq(table, LAMBDA r : r.song_id > id)

\* session.commit(): the song row and its fingerprint rows become visible
\* together; return song.id
add_song_commit(p) ==
    /\ pc[p] = "add_commit"
    /\ songs' = songs \cup session[p].song
    /\ fingerprints' = InsertRows(fingerprints, session[p].fingerprints)
    /\ ret' = [ret EXCEPT ![p] = RetId(call[p].song_id, "Added song")]
    /\ session' = [session EXCEPT ![p] = NoSession]
    /\ pc' = [pc EXCEPT ![p] = "done"]
    /\ UNCHANGED <<offline_vars, next_song_id, call, has_stats_cache, match_vars, api_vars>>

\* a statement of the open transaction fails (store unavailable):
\* except Exception: session.rollback(); raise
add_song_fail(p) ==
    /\ pc[p] \in {"add_bulk", "add_commit"}
    /\ add_song_rollback(p, "StoreError")
    /\ UNCHANGED <<offline_vars, songs, fingerprints, next_song_id, call, has_stats_cache, match_vars, api_vars>>

(***************************************************************************)
(* delete_song                                                             *)
(***************************************************************************)
delete_song_call(p) ==
    /\ Free(p)
    /\ \E id \in 1..MaxSongId :
          call' = [call EXCEPT ![p] = [NoCall EXCEPT !.op = "delete_song",
                                                     !.song_id = id]]
    /\ pc' = [pc EXCEPT ![p] = "del_read"]
    /\ ret' = [ret EXCEPT ![p] = RetNone]
    /\ session' = [session EXCEPT ![p] = NoSession]
    /\ UNCHANGED <<offline_vars, songs, fingerprints, next_song_id, has_stats_cache, match_vars, api_vars>>

\* song = session.query(Song).filter(Song.id == song_id).first()
delete_song_read(p) ==
    /\ pc[p] = "del_read"
    /\ IF call[p].song_id \in SongIds
       THEN /\ pc' = [pc EXCEPT ![p] = "del_commit"]
            /\ ret' = ret
       ELSE /\ pc' = [pc EXCEPT ![p] = "done"]
            /\ ret' = [ret EXCEPT ![p] = Printed("not found")]
    /\ UNCHANGED <<offline_vars, songs, fingerprints, next_song_id, call, session, has_stats_cache, match_vars, api_vars>>

\* session.delete(song) without the commit: the deletion is reported and
\* session.close() rolls it back
delete_song_commit_rolled_back(p) ==
    /\ pc[p] = "del_commit"
    /\ call[p].song_id \in SongIds
    /\ ret' = [ret EXCEPT ![p] = Printed("Deleted song")]
    /\ pc' = [pc EXCEPT ![p] = "done"]
    /\ UNCHANGED <<offline_vars, songs, fingerprints, next_song_id, call, session, has_stats_cache, match_vars, api_vars>>

\* the song row deleted without its fingerprint rows
delete_song_commit_no_cascade(p) ==
    /\ pc[p] = "del_commit"
    /\ call[p].song_id \in SongIds
    /\ songs' = {s \in songs : s.id # call[p].song_id}
    /\ ret' = [ret EXCEPT ![p] = Printed("Deleted song")]
    /\ pc' = [pc EXCEPT ![p] = "done"]
    /\ UNCHANGED <<offline_vars, fingerprints, next_song_id, call, session, has_stats_cache, match_vars, api_vars>>

\* session.delete(song); session.commit(): the unit of work loads
\* song.fingerprints, deletes them (cascade="all, delete-orphan") and then
\* the song row, in one transaction
delete_song_commit(p) ==
    /\ pc[p] = "del_commit"
    /\ call[p].song_id \in SongIds
    /\ songs' = {s \in songs : s.id # call[p].song_id}
    /\ fingerprints' = SelectSeq(fingerprints, LAMBDA r : r.song_id # call[p].song_id)
    /\ ret' = [ret EXCEPT ![p] = Printed("Deleted song")]
    /\ pc' = [pc EXCEPT ![p] = "done"]
    /\ UNCHANGED <<offline_vars, next_song_id, call, session, has_stats_cache, match_vars, api_vars>>

\* the row went away between the read and the DELETE (a concurrent
\* delete_song): the DELETE matches no row; the unit of work either warns and
\* commits nothing or raises StaleDataError, which is rolled back and raised
delete_song_stale(p) ==
    /\ pc[p] = "del_commit"
    /\ call[p].song_id \notin SongIds
    /\ \E ended \in {Printed("Deleted song"), Raised("StaleDataError")} :
          ret' = [ret EXCEPT ![p] = ended]
    /\ pc' = [pc EXCEPT ![p] = "done"]
    /\ UNCHANGED <<offline_vars, songs, fingerprints, next_song_id, call, session, has_stats_cache, match_vars, api_vars>>

(***************************************************************************)
(* get_database_stats                                                      *)
(***************************************************************************)
\* The first statement reads self._stats_cache, an attribute no code of the
\* class ever creates (__init__ sets engine and SessionLocal only): the read
\* raises AttributeError.  Were the attribute there and empty, the counts of
\* the two tables would be returned.
get_database_stats(p) ==
    /\ Free(p)
    /\ call' = [call EXCEPT ![p] = [NoCall EXCEPT !.op = "get_database_stats"]]
    /\ ret' = [ret EXCEPT ![p] =
                  IF ~has_stats_cache
                  THEN Raised("AttributeError")
                  ELSE RetStats(Cardinality(songs), Len(fingerprints))]
    /\ pc' = [pc EXCEPT ![p] = "done"]
    /\ session' = [session EXCEPT ![p] = NoSession]
    /\ UNCHANGED <<offline_vars, songs, fingerprints, next_song_id, has_stats_cache, match_vars, api_vars>>

(***************************************************************************)
(* find_matches                                                            *)
(***************************************************************************)
Min(a, b) == IF a <= b THEN a ELSE b

\* query_fingerprints[::step] without the cut at MAX_QUERY_FINGERPRINTS
Sampled_uncut(q) ==
    IF Len(q) > MAX_QUERY_FINGERPRINTS
    THEN LET step == Len(q) \div MAX_QUERY_FINGERPRINTS
         IN  [i \in 1..((Len(q) + step - 1) \div step) |-> q[(i - 1) * step + 1]]
    ELSE q

\* query_fingerprints[::step][:MAX_QUERY_FINGERPRINTS] when the query is
\* longer than MAX_QUERY_FINGERPRINTS, the whole query otherwise
Sampled(q) ==
    IF Len(q) > MAX_QUERY_FINGERPRINTS
    THEN LET step == Len(q) \div MAX_QUERY_FINGERPRINTS
             strided == [i \in 1..((Len(q) + step - 1) \div step) |->
                            q[(i - 1) * step + 1]]
         IN  SubSeq(strided, 1, Min(MAX_QUERY_FINGERPRINTS, Len(strided)))
    ELSE q

\* sampled_fingerprints[batch_start:batch_end] of the batch after n batches
Batch(sampled, n) ==
    LET batch_start == n * BATCH_SIZE
        batch_end == Min(batch_start + BATCH_SIZE, Len(sampled))
    IN  SubSeq(sampled, batch_start + 1, batch_end)

\* the rows of a fingerprints table that a lookup of the batch's hashes
\* matches, in heap order
MatchingRowsIn(table, batch) ==
    LET query_hashes == {batch[i][1] : i \in 1..Len(batch)}
    IN  SelectSeq(table, LAMBDA r : r.hash_value \in query_hashes)
MatchingRows(batch) == MatchingRowsIn(fingerprints, batch)

\* the store returns the matching rows in an order of its choosing
LookupResultsIn(table, batch) ==
    LET rows == MatchingRowsIn(table, batch)
    IN  {[i \in 1..Len(rows) |-> rows[perm[i]]] : perm \in Permutations(1..Len(rows))}
LookupResults(batch) == LookupResultsIn(fingerprints, batch)

\* hash_map[hash_val] overwritten by every row instead of appended to
HashMap_last_row(db_fingerprints_raw) ==
    [hash_val \in {db_fingerprints_raw[i].hash_value :
                      i \in 1..Len(db_fingerprints_raw)} |->
        LET rows == SelectSeq(db_fingerprints_raw, LAMBDA r : r.hash_value = hash_val)
        IN  <<rows[Len(rows)]>>]

\* hash_map: for every hash among the returned rows, the (time_offset,
\* song_id) of the rows with that hash, in the order returned
HashMap(db_fingerprints_raw) ==
    [hash_val \in {db_fingerprints_raw[i].hash_value :
                      i \in 1..Len(db_fingerprints_raw)} |->
        SelectSeq(db_fingerprints_raw, LAMBDA r : r.hash_value = hash_val)]

\* hash_map.get(query_hash, [])
Get(hash_map, query_hash) ==
    IF query_hash \in DOMAIN hash_map THEN hash_map[query_hash] ELSE <<>>

\* dict lookups on the insertion-ordered dicts matches and matches[song_id]
SongIndex(m, song_id) ==
    IF \E i \in 1..Len(m) : m[i].song_id = song_id
    THEN CHOOSE i \in 1..Len(m) : m[i].song_id = song_id
    ELSE 0
DeltaIndex(deltas, time_delta) ==
    IF \E i \in 1..Len(deltas) : deltas[i].time_delta = time_delta
    THEN CHOOSE i \in 1..Len(deltas) : deltas[i].time_delta = time_delta
    ELSE 0

\* the count set to 1 instead of incremented
Increment_overwrite(m, song_id, time_delta) ==
    LET m1 == IF SongIndex(m, song_id) = 0
              THEN Append(m, [song_id |-> song_id, deltas |-> <<>>])
              ELSE m
        i == SongIndex(m1, song_id)
        j == DeltaIndex(m1[i].deltas, time_delta)
    IN  IF j = 0
        THEN [m1 EXCEPT ![i].deltas =
                 Append(@, [time_delta |-> time_delta, count |-> 1])]
        ELSE [m1 EXCEPT ![i].deltas[j].count = 1]

\* matches[song_id][time_delta] = matches[song_id].get(time_delta, 0) + 1,
\* a new key going to the end of its dict
Increment(m, song_id, time_delta) ==
    LET m1 == IF SongIndex(m, song_id) = 0
              THEN Append(m, [song_id |-> song_id, deltas |-> <<>>])
              ELSE m
        i == SongIndex(m1, song_id)
        j == DeltaIndex(m1[i].deltas, time_delta)
    IN  IF j = 0
        THEN [m1 EXCEPT ![i].deltas =
                 Append(@, [time_delta |-> time_delta, count |-> 1])]
        ELSE [m1 EXCEPT ![i].deltas[j].count = @ + 1]

\* for db_offset, song_id in hash_map.get(query_hash, []): ...
RECURSIVE ProcessPostings(_, _, _, _)
ProcessPostings(m, postings, k, query_offset) ==
    IF k > Len(postings)
    THEN m
    ELSE ProcessPostings(
             Increment(m, postings[k].song_id,
                       postings[k].time_offset - query_offset),
             postings, k + 1, query_offset)

\* for query_hash, query_offset in batch_fingerprints: ... over the items
\* lo..hi of the batch, in index order (the range is halved to keep the
\* evaluation shallow: the left half is processed before the right one)
RECURSIVE ProcessItems(_, _, _, _, _)
ProcessItems(m, batch, lo, hi, hash_map) ==
    IF lo > hi
    THEN m
    ELSE IF lo = hi
    THEN ProcessPostings(m, Get(hash_map, batch[lo][1]), 1, batch[lo][2])
    ELSE LET mid == (lo + hi) \div 2
             left == ProcessItems(m, batch, lo, mid, hash_map)
         IN  IF Len(left) >= 0
             THEN ProcessItems(left, batch, mid + 1, hi, hash_map)
             ELSE left

\* matches emptied at the start of every batch
ProcessBatch_fresh(m, batch, db_fingerprints_raw) ==
    ProcessItems(<<>>, batch, 1, Len(batch), HashMap(db_fingerprints_raw))

\* the matches after a batch, given the rows its lookup returned
ProcessBatch(m, batch, db_fingerprints_raw) ==
    ProcessItems(m, batch, 1, Len(batch), HashMap(db_fingerprints_raw))

\* max(time_deltas.values())
MaxCount(deltas) ==
    LET counts == {deltas[i].count : i \in 1..Len(deltas)}
    IN  CHOOSE c \in counts : \A d \in counts : d <= c

\* max(time_deltas, key=time_deltas.get): the first key, in insertion order,
\* that holds the largest count
Alignment(deltas) ==
    LET first == CHOOSE i \in 1..Len(deltas) :
                    /\ deltas[i].count = MaxCount(deltas)
                    /\ \A j \in 1..(i - 1) : deltas[j].count < MaxCount(deltas)
    IN  deltas[first].time_delta

\* max(max(deltas.values()) for deltas in matches.values()), 0 for no match
BestScore(m) ==
    IF m = <<>>
    THEN 0
    ELSE LET tops == {MaxCount(m[i].deltas) : i \in 1..Len(m)}
         IN  CHOOSE c \in tops : \A d \in tops : d <= c

\* the ranking loop: a song replaces the best one only with a strictly
\* larger count, so the first song of matches that reaches the largest
\* count is the best match
RECURSIVE Rank(_, _, _)
Rank(m, k, best) ==
    IF k > Len(m)
    THEN best
    ELSE LET max_count == MaxCount(m[k].deltas)
             alignment == Alignment(m[k].deltas)
         IN  Rank(m, k + 1,
                  IF max_count > best.best_score
                  THEN [best_match |-> m[k].song_id, best_score |-> max_count,
                        best_alignment |-> alignment]
                  ELSE best)

BestMatch(m) ==
    Rank(m, 1, [best_match |-> 0, best_score |-> 0, best_alignment |-> 0])

\* (best_score / 100) * 100 in IEEE-754 double arithmetic, for best_score in
\* 0..100: the division and the multiplication each round to the nearest
\* double, and the product comes out one unit in the last place above
\* best_score for 7, 14, 28, 55 and 56 (7.000000000000001, ...), one below for
\* 29, 57 and 58 (28.999999999999996, ...), and exactly best_score otherwise
RoundedUp == {7, 14, 28, 55, 56}
RoundedDown == {29, 57, 58}
ScaledScore(best_score) ==
    IF best_score \in RoundedUp THEN Float(best_score, 1)
    ELSE IF best_score \in RoundedDown THEN Float(best_score, 0 - 1)
    ELSE Float(best_score, 0)

\* min(100, (best_score / 100) * 100): 100 from a best_score of 100 on
\* (the product is then at least 100.0)
ConfidencePct(best_score) ==
    IF best_score >= EXPECTED_GOOD_MATCH
    THEN Float(100, 0)
    ELSE ScaledScore(best_score)

\* the threshold test made with <= : a peak of exactly 5 is rejected
MatchResult_reject_at_min(m, query, song_rows) ==
    LET best == BestMatch(m)
        confidence_pct == ConfidencePct(best.best_score)
        song == {s \in song_rows : s.id = best.best_match}
    IN  IF m = <<>>
        THEN NoResult
        ELSE IF best.best_score <= MIN_MATCHING_FINGERPRINTS
        THEN NoResult
        ELSE IF FloatLess(confidence_pct, MIN_CONFIDENCE_PERCENTAGE)
        THEN NoResult
        ELSE IF best.best_match # 0 /\ best.best_score > 0 /\ song # {}
        THEN LET row == CHOOSE r \in song : TRUE
             IN  [matched |-> TRUE, song_id |-> row.id, title |-> row.title,
                  confidence |-> best.best_score,
                  total_query_prints |-> Len(query),
                  alignment_offset |-> best.best_alignment,
                  confidence_percentage |-> confidence_pct]
        ELSE NoResult

\* what find_matches returns for the final matches and the songs table
MatchResult(m, query, song_rows) ==
    LET best == BestMatch(m)
        confidence_pct == ConfidencePct(best.best_score)
        song == {s \in song_rows : s.id = best.best_match}
    IN  IF m = <<>>
        THEN NoResult
        ELSE IF best.best_score < MIN_MATCHING_FINGERPRINTS
        THEN NoResult
        ELSE IF FloatLess(confidence_pct, MIN_CONFIDENCE_PERCENTAGE)
        THEN NoResult
        ELSE IF best.best_match # 0 /\ best.best_score > 0 /\ song # {}
        THEN LET row == CHOOSE r \in song : TRUE
             IN  [matched |-> TRUE, song_id |-> row.id, title |-> row.title,
                  confidence |-> best.best_score,
                  total_query_prints |-> Len(query),
                  alignment_offset |-> best.best_alignment,
                  confidence_percentage |-> confidence_pct]
        ELSE NoResult

\* the matches a call may end its batch loop with when every lookup, from
\* batch n on, reads the same fingerprints table
RECURSIVE MatchesOver(_, _, _, _)
MatchesOver(table, sampled, n, m) ==
    IF n * BATCH_SIZE >= Len(sampled)
    THEN {m}
    ELSE LET batch == Batch(sampled, n)
         IN  UNION {LET m2 == ProcessBatch(m, batch, db_fingerprints_raw)
                    IN  IF m2 # <<>> /\ BestScore(m2) > EARLY_EXIT
                        THEN {m2}
                        ELSE MatchesOver(table, sampled, n + 1, m2) :
                        db_fingerprints_raw \in LookupResultsIn(table, batch)}

\* what find_matches may return for a query when the whole call reads one
\* committed store <<songs, fingerprints>>
find_matches_on(store, query) ==
    {MatchResult(m, query, store[1]) :
        m \in MatchesOver(store[2], Sampled(query), 0, <<>>)}

\* the queries find_matches is given: runs of one tuple, of the lengths at
\* which the thresholds of the matcher turn
Run(t, n) == [i \in 1..n |-> t]
ShortRuns == {0, MIN_MATCHING_FINGERPRINTS - 1, MIN_MATCHING_FINGERPRINTS}
LongRuns == {EARLY_EXIT, EARLY_EXIT + 1}
Queries ==
    {Run(t1, n1) \o Run(t2, n2) : t1 \in Tuples, t2 \in Tuples,
                                  n1 \in ShortRuns, n2 \in ShortRuns}
    \cup {Run(Tuple(h1, 0), n1) \o Run(Tuple(h2, 0), BATCH_SIZE) :
             h1 \in Hashes, h2 \in Hashes, n1 \in LongRuns}

\* the batch loop entered for an empty query as well
find_matches_call_always_loop(Q) ==
    /\ m_pc = "idle"
    /\ \E q \in Q :
          /\ query_fingerprints' = q
          /\ sampled_fingerprints' = Sampled(q)
          /\ m_pc' = "loop"
    /\ matches' = <<>>
    /\ batches_processed' = 0
    /\ full_matches' = <<>>
    /\ full_batches' = 0
    /\ result' = NoResult
    /\ UNCHANGED <<offline_vars, store_vars, api_vars>>

\* a caller enters find_matches with one of the queries Q: thresholds,
\* sampling, matches = {}
find_matches_call_from(Q) ==
    /\ m_pc = "idle"
    /\ \E q \in Q :
          /\ query_fingerprints' = q
          /\ sampled_fingerprints' = Sampled(q)
          /\ m_pc' = IF Len(Sampled(q)) = 0 THEN "rank" ELSE "loop"
    /\ matches' = <<>>
    /\ batches_processed' = 0
    /\ full_matches' = <<>>
    /\ full_batches' = 0
    /\ result' = NoResult
    /\ UNCHANGED <<offline_vars, store_vars, api_vars>>

\* the early exit taken from a best score of 80 on
find_matches_batch_exit_at_80 ==
    /\ m_pc = "loop"
    /\ LET batch == Batch(sampled_fingerprints, batches_processed)
       IN  \E db_fingerprints_raw \in LookupResults(batch) :
           \E m \in {ProcessBatch(matches, batch, db_fingerprints_raw)} :
                  /\ matches' = m
                  /\ full_matches' = m
                  /\ m_pc' = IF \/ (m # <<>> /\ BestScore(m) >= EARLY_EXIT)
                                \/ (batches_processed + 1) * BATCH_SIZE
                                       >= Len(sampled_fingerprints)
                             THEN "rank"
                             ELSE "loop"
    /\ batches_processed' = batches_processed + 1
    /\ full_batches' = batches_processed + 1
    /\ UNCHANGED <<offline_vars, store_vars, api_vars, query_fingerprints, sampled_fingerprints, result>>

\* one round of the batch loop: the lookup of the batch's hashes, the hash
\* map, the accumulation, and the early exit; the run with the early exit
\* disabled is given the same rows
find_matches_batch ==
    /\ m_pc = "loop"
    /\ LET batch == Batch(sampled_fingerprints, batches_processed)
       IN  \E db_fingerprints_raw \in LookupResults(batch) :
           \E m \in {ProcessBatch(matches, batch, db_fingerprints_raw)} :
                  /\ matches' = m
                  /\ full_matches' = m
                  /\ m_pc' = IF \/ (m # <<>> /\ BestScore(m) > EARLY_EXIT)
                                \/ (batches_processed + 1) * BATCH_SIZE
                                       >= Len(sampled_fingerprints)
                             THEN "rank"
                             ELSE "loop"
    /\ batches_processed' = batches_processed + 1
    /\ full_batches' = batches_processed + 1
    /\ UNCHANGED <<offline_vars, store_vars, api_vars, query_fingerprints, sampled_fingerprints, result>>

find_matches_call == find_matches_call_from(Queries)

\* the lookup of a batch raises (the store is unavailable): the exception
\* leaves find_matches through finally: session.close()
find_matches_fail ==
    /\ m_pc = "loop"
    /\ m_pc' = "raised"
    /\ UNCHANGED <<offline_vars, store_vars, api_vars, query_fingerprints, sampled_fingerprints,
                   batches_processed, matches, result, full_batches, full_matches>>

\* the query learnt: its tuples inserted as rows of the song it matched
find_matches_rank_learning ==
    /\ m_pc = "rank"
    /\ result' = MatchResult(matches, query_fingerprints, songs)
    /\ fingerprints' =
          IF result'.matched
          THEN InsertRows(fingerprints,
                          FingerprintDicts(query_fingerprints, result'.song_id))
          ELSE fingerprints
    /\ m_pc' = "done"
    /\ UNCHANGED <<offline_vars, songs, next_song_id, pc, call, session, ret, has_stats_cache,
                   api_vars, query_fingerprints, sampled_fingerprints,
                   batches_processed, matches, full_batches, full_matches>>

\* after the loop: ranking, thresholds, the read of the song row, return
find_matches_rank ==
    /\ m_pc = "rank"
    /\ result' = MatchResult(matches, query_fingerprints, songs)
    /\ m_pc' = "done"
    /\ UNCHANGED <<offline_vars, store_vars, api_vars, query_fingerprints, sampled_fingerprints,
                   batches_processed, matches, full_batches, full_matches>>

\* finally: session.close(); the caller has the result and the locals of
\* the call are gone
find_matches_return ==
    /\ m_pc \in {"done", "raised"}
    /\ m_pc' = "idle"
    /\ query_fingerprints' = <<>>
    /\ sampled_fingerprints' = <<>>
    /\ batches_processed' = 0
    /\ matches' = <<>>
    /\ result' = NoResult
    /\ full_batches' = 0
    /\ full_matches' = <<>>
    /\ UNCHANGED <<offline_vars, store_vars, api_vars>>

\* the same call with the early exit disabled goes on with the batches the
\* call left out
full_run_batch ==
    /\ m_pc = "done"
    /\ full_batches * BATCH_SIZE < Len(sampled_fingerprints)
    /\ LET batch == Batch(sampled_fingerprints, full_batches)
       IN  \E db_fingerprints_raw \in LookupResults(batch) :
              full_matches' = ProcessBatch(full_matches, batch, db_fingerprints_raw)
    /\ full_batches' = full_batches + 1
    /\ UNCHANGED <<offline_vars, store_vars, api_vars, m_pc, query_fingerprints, sampled_fingerprints,
                   batches_processed, matches, result>>

add_song(p) ==
    \/ add_song_call(p)
    \/ add_song_check(p)
    \/ add_song_flush(p)
    \/ add_song_bulk_insert(p)
    \/ add_song_commit(p)
    \/ add_song_fail(p)

delete_song(p) ==
    \/ delete_song_call(p)
    \/ delete_song_read(p)
    \/ delete_song_commit(p)
    \/ delete_song_stale(p)

Next ==
    \E p \in Procs :
        \/ add_song(p)
        \/ delete_song(p)
        \/ get_database_stats(p)

Spec == Init /\ [][Next]_vars

\* the writers of the store alone: add_song and delete_song calls in parallel
NextStore == \E p \in Procs : add_song(p) \/ delete_song(p)

SpecStore == Init /\ [][NextStore]_vars

\* the parallel uploader: add_song calls only
NextIngest == \E p \in Procs : add_song(p)

SpecIngest == Init /\ [][NextIngest]_vars

(***************************************************************************)
(* The matcher over a committed store: the tables hold up to MaxRows       *)
(* fingerprint rows of the songs 1..MaxMatchSongs.                         *)
(***************************************************************************)
MatchRowSet ==
    [hash_value : Hashes, time_offset : Offsets, song_id : 1..MaxMatchSongs]
RowKey(r) ==
    (IF r.hash_value = "a" THEN 0 ELSE 1) + 2 * r.time_offset
        + 2 * Cardinality(Offsets) * r.song_id
\* the heap orders are taken sorted: a lookup permutes its rows anyway
MatchStores ==
    {t \in UNION {[1..n -> MatchRowSet] : n \in 0..MaxRows} :
        \A i \in 1..(Len(t) - 1) : RowKey(t[i]) <= RowKey(t[i + 1])}

InitMatch ==
    /\ MatchInit
    /\ ApiInit
    /\ OfflineInit
    /\ fingerprints \in MatchStores
    /\ songs = {[id |-> id, title |-> "T1", file_hash |-> <<"sha256", id>>] :
                    id \in {fingerprints[i].song_id : i \in 1..Len(fingerprints)}}
    /\ next_song_id = MaxMatchSongs + 1
    /\ pc = [p \in Procs |-> "idle"]
    /\ call = [p \in Procs |-> NoCall]
    /\ session = [p \in Procs |-> NoSession]
    /\ ret = [p \in Procs |-> RetNone]
    /\ has_stats_cache = FALSE

NextMatch ==
    \/ find_matches_call
    \/ find_matches_batch
    \/ find_matches_fail
    \/ find_matches_rank
    \/ find_matches_return
    \/ full_run_batch

SpecMatch == InitMatch /\ [][NextMatch]_vars

(***************************************************************************)
(* The HTTP endpoints (backend/app/api/routes.py).  One request is handled *)
(* at a time; its calls of the DatabaseManager are the calls of process    *)
(* Handler, and find_matches.                                              *)
(***************************************************************************)
Handler == 1

allowed_extensions == {".mp3", ".wav", ".flac", ".ogg", ".m4a"}
\* the extensions of the uploaded file names
Extensions == {".mp3", ".txt"}
\* the uploaded audio: the files of the store, and one without any peak
Uploads == FilePaths \cup {"silence.mp3"}
\* what the fingerprinter makes of the recordings sent to /identify
Recordings ==
    {<<>>, Run(Tuple("a", 0), MIN_MATCHING_FINGERPRINTS),
     Run(Tuple("b", 1), MIN_MATCHING_FINGERPRINTS),
     Run(Tuple("b", 0), MIN_MATCHING_FINGERPRINTS - 1)}

\* except Exception as e: raise HTTPException(status_code=500, detail=str(e))
\* around the body of upload_song and identify_song: whatever the body
\* raised, an HTTPException with its own status code included, ends as 500
OuterExcept(status_code) == 500

\* the response leaves the handler
Respond(status_code, detail, matched, song_id) ==
    /\ response' = [NoResponse EXCEPT !.status_code = status_code,
                                      !.detail = detail,
                                      !.matched = matched,
                                      !.song_id = song_id]
    /\ h_pc' = "responded"

\* MatchResult(matched=True, song=SongResponse(...), confidence=...,
\* confidence_percentage=...): the details of the song row, the scores of
\* match_result
RespondMatch(song, match_result) ==
    /\ response' = [NoResponse EXCEPT
                       !.status_code = 200,
                       !.matched = TRUE,
                       !.song_id = song.id,
                       !.title = song.title,
                       !.confidence = match_result.confidence,
                       !.confidence_percentage = match_result.confidence_percentage]
    /\ h_pc' = "responded"

\* a request arrives; the handler has no DatabaseManager call behind it
BeginRequest(req) ==
    /\ h_pc \in {"idle", "responded"}
    /\ request' = req
    /\ response' = NoResponse
    /\ tmp_exists' = FALSE
    /\ store_before' = <<songs, fingerprints>>
    /\ pc' = [pc EXCEPT ![Handler] = "idle"]
    /\ call' = [call EXCEPT ![Handler] = NoCall]
    /\ ret' = [ret EXCEPT ![Handler] = RetNone]
    /\ UNCHANGED <<offline_vars, songs, fingerprints, next_song_id, session, has_stats_cache,
                   match_vars, deleted>>

\* POST /songs/upload
upload_song_request ==
    /\ \E file_ext \in Extensions, content \in Uploads :
          BeginRequest([NoRequest EXCEPT !.endpoint = "upload_song",
                                         !.file_ext = file_ext,
                                         !.content = content])
    /\ h_pc' = "upload_validate"

\* if file_ext not in allowed_extensions: raise HTTPException(400)
upload_song_validate ==
    /\ h_pc = "upload_validate"
    /\ IF request.file_ext \notin allowed_extensions
       THEN Respond(OuterExcept(400), "Unsupported file type", FALSE, 0)
       ELSE h_pc' = "upload_save" /\ response' = response
    /\ UNCHANGED <<offline_vars, store_vars, match_vars, request, tmp_exists, store_before, deleted>>

\* with tempfile.NamedTemporaryFile(delete=False) as tmp: the file is
\* created; contents = await file.read(); tmp.write(contents) succeed, or
\* one of them raises and the exception leaves the with block, which closes
\* the file and keeps it
upload_song_save ==
    /\ h_pc = "upload_save"
    /\ tmp_exists' = TRUE
    /\ \/ h_pc' = "upload_fingerprint" /\ response' = response
       \/ Respond(OuterExcept(0), "read or write failed", FALSE, 0)
    /\ UNCHANGED <<offline_vars, store_vars, match_vars, request, store_before, deleted>>

\* librosa.get_duration, fingerprinter.fingerprint_file, the test for no
\* fingerprints; an exception runs finally: os.remove(tmp_path)
upload_song_fingerprint ==
    /\ h_pc = "upload_fingerprint"
    /\ \/ /\ tmp_exists' = FALSE
          /\ Respond(OuterExcept(0), "could not decode", FALSE, 0)
       \/ /\ fingerprint_file(request.content) = <<>>
          /\ tmp_exists' = FALSE
          /\ Respond(OuterExcept(400), "Could not generate fingerprints", FALSE, 0)
       \/ /\ fingerprint_file(request.content) # <<>>
          /\ h_pc' = "upload_db"
          /\ UNCHANGED <<tmp_exists, response>>
    /\ UNCHANGED <<offline_vars, store_vars, match_vars, request, store_before, deleted>>

\* song_id = db_manager.add_song(..., fingerprints=fingerprints,
\* filepath=tmp_path): the statements of the call
upload_song_add_song ==
    /\ h_pc = "upload_db"
    /\ \/ /\ pc[Handler] = "idle"
          /\ add_song_call(Handler)
          /\ call'[Handler].filepath = request.content
       \/ add_song_check(Handler)
       \/ add_song_flush(Handler)
       \/ add_song_bulk_insert(Handler)
       \/ add_song_commit(Handler)
       \/ add_song_fail(Handler)

\* return UploadResponse(...), or the exception of add_song; finally:
\* os.remove(tmp_path)
upload_song_respond ==
    /\ h_pc = "upload_db"
    /\ pc[Handler] = "done"
    /\ tmp_exists' = FALSE
    /\ IF ret[Handler].kind = "raised"
       THEN Respond(OuterExcept(0), ret[Handler].error, FALSE, 0)
       ELSE Respond(200, "Song uploaded successfully", FALSE, ret[Handler].id)
    /\ UNCHANGED <<offline_vars, store_vars, match_vars, request, store_before, deleted>>

\* POST /identify with one of the recordings R
identify_song_request_from(R) ==
    /\ \E recording \in R :
          BeginRequest([NoRequest EXCEPT !.endpoint = "identify_song",
                                         !.file_ext = ".mp3",
                                         !.recording = recording])
    /\ h_pc' = "identify_save"
identify_song_request == identify_song_request_from(Recordings)

\* with tempfile.NamedTemporaryFile(delete=False) as tmp: as in upload_song
identify_song_save ==
    /\ h_pc = "identify_save"
    /\ tmp_exists' = TRUE
    /\ \/ h_pc' = "identify_fingerprint" /\ response' = response
       \/ Respond(OuterExcept(0), "read or write failed", FALSE, 0)
    /\ UNCHANGED <<offline_vars, store_vars, match_vars, request, store_before, deleted>>

\* query_fingerprints = fingerprinter.fingerprint_file(tmp_path,
\* preprocess=True); if not query_fingerprints: raise HTTPException(400)
identify_song_fingerprint ==
    /\ h_pc = "identify_fingerprint"
    /\ \/ /\ tmp_exists' = FALSE
          /\ Respond(OuterExcept(0), "could not decode", FALSE, 0)
       \/ /\ request.recording = <<>>
          /\ tmp_exists' = FALSE
          /\ Respond(OuterExcept(400), "Could not generate fingerprints", FALSE, 0)
       \/ /\ request.recording # <<>>
          /\ h_pc' = "identify_db"
          /\ UNCHANGED <<tmp_exists, response>>
    /\ UNCHANGED <<offline_vars, store_vars, match_vars, request, store_before, deleted>>

\* match_result = db_manager.find_matches(query_fingerprints): the steps of
\* the call
identify_song_find_matches ==
    /\ h_pc = "identify_db"
    /\ \/ find_matches_call_from({request.recording})
       \/ find_matches_batch
       \/ find_matches_fail
       \/ find_matches_rank

\* the response built from match_result alone, without the second read of
\* the song row
identify_song_respond_unchecked ==
    /\ h_pc = "identify_db"
    /\ m_pc \in {"done", "raised"}
    /\ tmp_exists' = FALSE
    /\ IF m_pc = "raised"
       THEN Respond(OuterExcept(0), "StoreError", FALSE, 0)
       ELSE IF /\ result.matched
               /\ result.confidence > 0
       THEN RespondMatch([id |-> result.song_id, title |-> result.title], result)
       ELSE Respond(200, "", FALSE, 0)
    /\ m_pc' = "idle"
    /\ query_fingerprints' = <<>>
    /\ sampled_fingerprints' = <<>>
    /\ batches_processed' = 0
    /\ matches' = <<>>
    /\ result' = NoResult
    /\ full_batches' = 0
    /\ full_matches' = <<>>
    /\ UNCHANGED <<offline_vars, store_vars, request, store_before, deleted>>

\* the response built from match_result: song = db_manager.get_song(...)
\* for a match, matched=False otherwise, 500 for an exception of
\* find_matches; finally: os.remove(tmp_path)
identify_song_respond ==
    /\ h_pc = "identify_db"
    /\ m_pc \in {"done", "raised"}
    /\ tmp_exists' = FALSE
    /\ IF m_pc = "raised"
       THEN Respond(OuterExcept(0), "StoreError", FALSE, 0)
       ELSE IF /\ result.matched
               /\ result.confidence > 0
               /\ \E s \in songs : s.id = result.song_id
       THEN RespondMatch(SongById(result.song_id), result)
       ELSE Respond(200, "", FALSE, 0)
    /\ m_pc' = "idle"
    /\ query_fingerprints' = <<>>
    /\ sampled_fingerprints' = <<>>
    /\ batches_processed' = 0
    /\ matches' = <<>>
    /\ result' = NoResult
    /\ full_batches' = 0
    /\ full_matches' = <<>>
    /\ UNCHANGED <<offline_vars, store_vars, request, store_before, deleted>>

\* GET /songs/{song_id}
get_song_request ==
    /\ \E song_id \in 1..MaxSongId :
          BeginRequest([NoRequest EXCEPT !.endpoint = "get_song",
                                         !.song_id = song_id])
    /\ h_pc' = "get_song_db"

\* song = db_manager.get_song(song_id); if not song: raise
\* HTTPException(404), which except HTTPException: raise lets through
get_song_respond ==
    /\ h_pc = "get_song_db"
    /\ IF request.song_id \in SongIds
       THEN Respond(200, "", FALSE, request.song_id)
       ELSE Respond(404, "Song not found", FALSE, 0)
    /\ UNCHANGED <<offline_vars, store_vars, match_vars, request, tmp_exists, store_before, deleted>>

\* DELETE /songs/{song_id}
http_delete_song_request ==
    /\ \E song_id \in 1..MaxSongId :
          BeginRequest([NoRequest EXCEPT !.endpoint = "delete_song",
                                         !.song_id = song_id])
    /\ h_pc' = "delete_db"

\* db_manager.delete_song(song_id): the statements of the call
http_delete_song_delete_song ==
    /\ h_pc = "delete_db"
    /\ \/ /\ pc[Handler] = "idle"
          /\ delete_song_call(Handler)
          /\ call'[Handler].song_id = request.song_id
       \/ delete_song_read(Handler)
       \/ delete_song_commit(Handler)

\* return {"message": "Song deleted successfully", "song_id": song_id}
\* whenever delete_song returned, 500 when it raised
http_delete_song_respond ==
    /\ h_pc = "delete_db"
    /\ pc[Handler] = "done"
    /\ IF ret[Handler].kind = "raised"
       THEN Respond(500, ret[Handler].error, FALSE, 0)
       ELSE Respond(200, "Song deleted successfully", FALSE, request.song_id)
    /\ deleted' = IF ret[Handler].msg = "Deleted song"
                  THEN deleted \cup {request.song_id}
                  ELSE deleted
    /\ UNCHANGED <<offline_vars, store_vars, match_vars, request, tmp_exists, store_before>>

NextApi ==
    \/ upload_song_request
    \/ upload_song_validate
    \/ upload_song_save
    \/ upload_song_fingerprint
    \/ upload_song_add_song
    \/ upload_song_respond
    \/ identify_song_request
    \/ identify_song_save
    \/ identify_song_fingerprint
    \/ identify_song_find_matches
    \/ identify_song_respond
    \/ get_song_request
    \/ get_song_respond
    \/ http_delete_song_request
    \/ http_delete_song_delete_song
    \/ http_delete_song_respond

SpecApi == Init /\ [][NextApi]_vars

(***************************************************************************)
(* An identify request next to one writer: process Writer makes one        *)
(* add_song or delete_song call while the request is handled.  Every       *)
(* statement reads the store as committed when it runs.                    *)
(***************************************************************************)
Writer == 2

\* a short recording of a tuple the songs hold, and a recording of two
\* batches with that tuple in both
RaceRecordings ==
    {Run(Tuple("a", 0), MIN_MATCHING_FINGERPRINTS),
     Run(Tuple("a", 0), MIN_MATCHING_FINGERPRINTS)
         \o Run(Tuple("b", 0), BATCH_SIZE - MIN_MATCHING_FINGERPRINTS)
         \o Run(Tuple("a", 0), MIN_MATCHING_FINGERPRINTS)}

\* the store the request meets: empty, or song 1 with one row
RaceStores == {<<>>, <<[hash_value |-> "a", time_offset |-> 0, song_id |-> 1]>>}

InitRace ==
    /\ MatchInit
    /\ ApiInit
    /\ OfflineInit
    /\ fingerprints \in RaceStores
    /\ songs = {[id |-> id, title |-> "T1", file_hash |-> <<"sha256", id + MaxSongId>>] :
                    id \in {fingerprints[i].song_id : i \in 1..Len(fingerprints)}}
    /\ next_song_id = Len(fingerprints) + 1
    /\ pc = [p \in Procs |-> "idle"]
    /\ call = [p \in Procs |-> NoCall]
    /\ session = [p \in Procs |-> NoSession]
    /\ ret = [p \in Procs |-> RetNone]
    /\ has_stats_cache = FALSE

identify_race_request == identify_song_request_from(RaceRecordings)

\* the one call of the writer
writer_call ==
    /\ pc[Writer] = "idle"
    /\ \/ add_song_call(Writer)
       \/ delete_song_call(Writer)

writer_step ==
    \/ add_song_check(Writer)
    \/ add_song_flush(Writer)
    \/ add_song_bulk_insert(Writer)
    \/ add_song_commit(Writer)
    \/ add_song_fail(Writer)
    \/ delete_song_read(Writer)
    \/ delete_song_commit(Writer)

NextRace ==
    \/ identify_race_request
    \/ identify_song_save
    \/ identify_song_fingerprint
    \/ identify_song_find_matches
    \/ identify_song_respond
    \/ writer_call
    \/ writer_step

SpecRace == InitRace /\ [][NextRace]_vars

(***************************************************************************)
(* The sampling of long queries: find_matches on an empty store, given     *)
(* queries of up to MaxQueryLen items that are told apart by their         *)
(* offsets.                                                                *)
(***************************************************************************)
Indexed(n) == [i \in 1..n |-> Tuple("a", i - 1)]
\* the lengths around the multiples of MAX_QUERY_FINGERPRINTS, and the short ones
SampleLens ==
    {n \in 0..MaxQueryLen :
        n <= 20 \/ (n % MAX_QUERY_FINGERPRINTS) \in {0, 1, 2, 200, 399}}
SampleQueries == {Indexed(n) : n \in SampleLens}

NextSample ==
    \/ find_matches_call_from(SampleQueries)
    \/ find_matches_batch
    \/ find_matches_rank
    \/ find_matches_return

SpecSample == Init /\ [][NextSample]_vars

(***************************************************************************)
(* The scores of a match: find_matches given a run of up to MaxRun copies  *)
(* of a tuple that one song holds, once or twice.                          *)
(***************************************************************************)
ScoreRow == [hash_value |-> "a", time_offset |-> 0, song_id |-> 1]
ScoreStores == {<<ScoreRow>>, <<ScoreRow, ScoreRow>>}
ScoreQueries == {Run(Tuple("a", 0), n) : n \in 0..MaxRun}

InitScore ==
    /\ MatchInit
    /\ ApiInit
    /\ OfflineInit
    /\ fingerprints \in ScoreStores
    /\ songs = {[id |-> 1, title |-> "T1", file_hash |-> <<"sha256", 1>>]}
    /\ next_song_id = 2
    /\ pc = [p \in Procs |-> "idle"]
    /\ call = [p \in Procs |-> NoCall]
    /\ session = [p \in Procs |-> NoSession]
    /\ ret = [p \in Procs |-> RetNone]
    /\ has_stats_cache = FALSE

NextScore ==
    \/ find_matches_call_from(ScoreQueries)
    \/ find_matches_batch
    \/ find_matches_rank
    \/ find_matches_return

SpecScore == InitScore /\ [][NextScore]_vars

(***************************************************************************)
(* The fingerprinter (backend/app/fingerprint.py): find_peaks and           *)
(* generate_hashes, on spectrograms of MaxBins frequency bins and MaxFrames *)
(* time frames.                                                            *)
(***************************************************************************)
peak_neighborhood_size == 10
fan_value == 5
target_zone_width == 75
target_zone_start == 1

\* amplitude_to_db(ref=np.max): the loudest cell holds 0 dB and no cell is
\* more than top_db below it
top_db == 80

Bins == 0..(MaxBins - 1)
Frames == 0..(MaxFrames - 1)

SetMax(S) == CHOOSE x \in S : \A y \in S : y <= x
SetMin(S) == CHOOSE x \in S : \A y \in S : x <= y

\* The spectrograms find_peaks is given: in every bin, onsets at some
\* frames, each at 0 dB and decaying by 1 dB per frame down to the floor; a
\* bin rises to its first onset; a bin without onset is at the floor.
ToothBins == {0, 1, 2}
ToothFrames == {0, 1, 3, MaxFrames - 2}
ToothSets ==
    {T \in SUBSET (ToothBins \X ToothFrames) : Cardinality(T) <= MaxTeeth}
Sawtooth(T) ==
    [c \in Bins \X Frames |->
        LET onsets == {x[2] : x \in {y \in T : y[1] = c[1]}}
            before == {x \in onsets : x <= c[2]}
        IN  IF onsets = {}
            THEN 0 - top_db
            ELSE IF before # {}
            THEN 0 - Min(c[2] - SetMax(before), top_db)
            ELSE 0 - Min(SetMin(onsets) - c[2], top_db)]
\* a bin with onsets at equal distances, further apart than a neighbourhood
CombPeriod == peak_neighborhood_size + 2
Combs ==
    {{<<1, 1 + CombPeriod * k>> : k \in 0..(n - 1)} :
        n \in (MaxTeeth + 1)..((MaxFrames - 2) \div CombPeriod + 1)}
Spectrograms == {Sawtooth(T) : T \in ToothSets \cup Combs}

\* scipy.ndimage.maximum_filter(spectrogram, size=n), mode='reflect': the
\* window of a cell spans the offsets -(n // 2) .. n - n // 2 - 1 on both
\* axes, and an index outside the array is mirrored at the edge
Reflect(i, n) ==
    LET m == i % (2 * n)
    IN  IF m < n THEN m ELSE 2 * n - 1 - m
Window ==
    (0 - (peak_neighborhood_size \div 2)) ..
        (peak_neighborhood_size - (peak_neighborhood_size \div 2) - 1)
\* (the maximum over a square window is taken along one axis, then along
\* the other; the comparison of an array with itself has it computed once)
maximum_filter(S) ==
    LET along_frames ==
            [c \in Bins \X Frames |->
                SetMax({S[<<c[1], Reflect(c[2] + dt, MaxFrames)>>] : dt \in Window})]
        local_max ==
            [c \in Bins \X Frames |->
                SetMax({along_frames[<<Reflect(c[1] + df, MaxBins), c[2]>>] :
                           df \in Window})]
    IN  IF along_frames = along_frames /\ local_max = local_max
        THEN local_max
        ELSE local_max

\* np.percentile(spectrogram, 90), linear interpolation between the order
\* statistics around position 0.9 * (N - 1); the threshold is kept times 100
\* the value with fewer than m cells above it and at least m cells at or
\* above it, searched from the value v downwards
RECURSIVE MthLargestFrom(_, _, _)
MthLargestFrom(S, v, m) ==
    LET here == Cardinality({c \in DOMAIN S : S[c] = v})
    IN  IF here >= m
        THEN v
        ELSE MthLargestFrom(S, SetMax({S[c] : c \in DOMAIN S} \cap ((0 - top_db)..(v - 1))),
                            m - here)
\* the order statistic at the 0-based position k of the sorted values
KthSmallest(S, k) ==
    MthLargestFrom(S, SetMax({S[c] : c \in DOMAIN S}), Cardinality(DOMAIN S) - k)
Percentile90Times100(S) ==
    LET n == Cardinality(DOMAIN S)
        lo == (90 * (n - 1)) \div 100
        rem == (90 * (n - 1)) % 100
        below == KthSmallest(S, lo)
    IN  IF rem = 0
        THEN 100 * below
        ELSE 100 * below + rem * (KthSmallest(S, lo + 1) - below)

\* is_peak & (spectrogram >= threshold), the border rows and columns of
\* is_peak set to False
IsBorder(c) == c[1] \in {0, MaxBins - 1} \/ c[2] \in {0, MaxFrames - 1}
IsPeak(S, local_max, threshold, c) ==
    /\ S[c] = local_max[c]
    /\ ~IsBorder(c)
    /\ 100 * S[c] >= threshold

\* np.where: the cells in row-major order, bin by bin
RowMajor == [k \in 1..(MaxBins * MaxFrames) |->
                <<(k - 1) \div MaxFrames, (k - 1) % MaxFrames>>]

\* list.sort(key=lambda x: x[0]): a stable sort, equal keys keep their order
SortByTime(peak_list) ==
    LET n == Len(peak_list)
        rank == [i \in 1..n |->
                    Cardinality({j \in 1..n : peak_list[j][1] < peak_list[i][1]})
                    + Cardinality({j \in 1..i : peak_list[j][1] = peak_list[i][1]})]
        at == [r \in 1..n |-> CHOOSE i \in 1..n : rank[i] = r]
    IN  [r \in 1..n |-> peak_list[at[r]]]

\* the peak list left in the order of np.where
find_peaks_unsorted(S) ==
    LET local_max == maximum_filter(S)
        threshold == Percentile90Times100(S)
        where == SelectSeq(RowMajor, LAMBDA c : IsPeak(S, local_max, threshold, c))
    IN  [i \in 1..Len(where) |-> <<where[i][2], where[i][1]>>]

\* find_peaks: the (time, frequency) landmarks of a spectrogram
find_peaks(S) ==
    LET local_max == maximum_filter(S)
        threshold == Percentile90Times100(S)
        where == SelectSeq(RowMajor, LAMBDA c : IsPeak(S, local_max, threshold, c))
        peak_list == [i \in 1..Len(where) |-> <<where[i][2], where[i][1]>>]
    IN  SortByTime(peak_list)

\* the anchor's time written into the hashed string as well
HashString_with_time(freq1, freq2, time1, time2) ==
    ToString(freq1) \o "|" \o ToString(freq2) \o "|" \o ToString(time2 - time1)
        \o "|" \o ToString(time1)
\* f"{freq1}|{freq2}|{time_delta}"
HashString(freq1, freq2, time1, time2) ==
    ToString(freq1) \o "|" \o ToString(freq2) \o "|" \o ToString(time2 - time1)
\* hashlib.sha1(...).hexdigest(): equal strings give equal digests,
\* different strings different ones
Sha1(hash_string) == <<"sha1", hash_string>>

\* the indices j the inner loop of anchor i visits, among n peaks: from
\* i + target_zone_start, below min(i + target_zone_width, n), the loop left
\* after the first j with j - i >= fan_value
Paired_no_break(i, n) ==
    {j \in (i + target_zone_start)..(Min(i + target_zone_width, n) - 1) : TRUE}
Paired(i, n) ==
    {j \in (i + target_zone_start)..(Min(i + target_zone_width, n) - 1) :
        \A k \in (i + target_zone_start)..(j - 1) : k - i < fan_value}

\* the (i, j) index pairs in the order the two loops visit them (0-based),
\* for the anchors lo..hi of n peaks (the range is halved to keep the
\* evaluation shallow: the lower anchors come first)
RECURSIVE PairsBetween(_, _, _)
PairsBetween(lo, hi, n) ==
    IF lo > hi
    THEN <<>>
    ELSE IF lo = hi
    THEN [k \in 1..Cardinality(Paired(lo, n)) |->
             <<lo, lo + target_zone_start + k - 1>>]
    ELSE LET mid == (lo + hi) \div 2
         IN  PairsBetween(lo, mid, n) \o PairsBetween(mid + 1, hi, n)
PairsFrom(i, n) == PairsBetween(i, n - 1, n)

\* generate_hashes: one (hash_value, time1) tuple per visited pair
generate_hashes(peak_list) ==
    LET pairs == PairsFrom(0, Len(peak_list))
    IN  [k \in 1..Len(pairs) |->
            LET peak1 == peak_list[pairs[k][1] + 1]
                peak2 == peak_list[pairs[k][2] + 1]
            IN  <<Sha1(HashString(peak1[2], peak2[2], peak1[1], peak2[1])),
                  peak1[1]>>]

\* fingerprint_audio: spectrogram = self.compute_spectrogram(audio)
fingerprint_audio_call ==
    /\ f_pc = "idle"
    /\ spectrogram' \in Spectrograms
    /\ f_pc' = "spectrogram"
    /\ UNCHANGED <<store_vars, match_vars, api_vars, batch_vars, peaks, hashes>>

\* peaks = self.find_peaks(spectrogram)
fingerprint_audio_find_peaks ==
    /\ f_pc = "spectrogram"
    /\ peaks' = find_peaks(spectrogram)
    /\ f_pc' = "peaks"
    /\ UNCHANGED <<store_vars, match_vars, api_vars, batch_vars, spectrogram, hashes>>

\* hashes = self.generate_hashes(peaks)
fingerprint_audio_generate_hashes ==
    /\ f_pc = "peaks"
    /\ hashes' = generate_hashes(peaks)
    /\ f_pc' = "hashed"
    /\ UNCHANGED <<store_vars, match_vars, api_vars, batch_vars, spectrogram, peaks>>

\* return hashes
fingerprint_audio_return ==
    /\ f_pc = "hashed"
    /\ f_pc' = "idle"
    /\ spectrogram' = NoSpectrogram
    /\ peaks' = <<>>
    /\ hashes' = <<>>
    /\ UNCHANGED <<store_vars, match_vars, api_vars, batch_vars>>

NextFingerprint ==
    \/ fingerprint_audio_call
    \/ fingerprint_audio_find_peaks
    \/ fingerprint_audio_generate_hashes
    \/ fingerprint_audio_return

SpecFingerprint == Init /\ [][NextFingerprint]_vars

(***************************************************************************)
(* The parallel batch uploader (backend/scripts/add_songs_parallel.py): a  *)
(* pool of MaxProcs workers, each with its own DatabaseManager on the same *)
(* store, and the parent that counts the statuses they return.             *)
(***************************************************************************)
\* sorted(audio_dir.rglob("*")): the audio files of the directory, by name
SortedUploads == <<"a.mp3", "b.mp3", "copy_of_a.mp3", "silence.mp3">>
RECURSIVE Subsequences(_)
Subsequences(files) ==
    IF files = <<>>
    THEN {<<>>}
    ELSE LET rest == Subsequences(Tail(files))
         IN  rest \cup {<<Head(files)>> \o r : r \in rest}
Directories == Subsequences(SortedUploads) \ {<<>>}

\* the parent receives (status, message): stats[status] += 1
Report(p, status, printed) ==
    /\ outcome' = Append(outcome, [file |-> task[p], status |-> status,
                                   printed |-> printed])
    /\ stats' = [stats EXCEPT ![status] = @ + 1]
    /\ task' = [task EXCEPT ![p] = NoPath]

\* add_songs_parallel: audio_files = list(iter_audio_files(audio_dir)),
\* stats = {'total': len(audio_files), 'added': 0, 'skipped': 0, 'failed': 0}
add_songs_parallel_start ==
    /\ stats.total = 0
    /\ \E files \in Directories :
          /\ audio_files' = files
          /\ stats' = [NoStats EXCEPT !.total = Len(files)]
    /\ UNCHANGED <<store_vars, match_vars, api_vars, fp_vars, task, outcome>>

\* pool.imap_unordered(process_func, audio_files, chunksize=1): a free
\* worker is handed the next file; db = DatabaseManager(...)
process_single_song_call(p) ==
    /\ task[p] = NoPath
    /\ audio_files # <<>>
    /\ task' = [task EXCEPT ![p] = Head(audio_files)]
    /\ audio_files' = Tail(audio_files)
    /\ pc' = [pc EXCEPT ![p] = "idle"]
    /\ call' = [call EXCEPT ![p] = NoCall]
    /\ ret' = [ret EXCEPT ![p] = RetNone]
    /\ UNCHANGED <<songs, fingerprints, next_song_id, session, has_stats_cache,
                   match_vars, api_vars, fp_vars, stats, outcome>>

\* hashes = fp.fingerprint_file(...) raises: except Exception: 'failed'
process_single_song_except(p) ==
    /\ task[p] # NoPath
    /\ pc[p] = "idle"
    /\ Report(p, "failed", "Error")
    /\ UNCHANGED <<store_vars, match_vars, api_vars, fp_vars, audio_files>>

\* if not hashes: return ('failed', ... "No fingerprints generated")
process_single_song_no_hashes(p) ==
    /\ task[p] # NoPath
    /\ pc[p] = "idle"
    /\ fingerprint_file(task[p]) = <<>>
    /\ Report(p, "failed", "No fingerprints generated")
    /\ UNCHANGED <<store_vars, match_vars, api_vars, fp_vars, audio_files>>

\* song_id = db.add_song(..., fingerprints=hashes, filepath=str(audio_path)):
\* the steps of the call
process_single_song_add_song(p) ==
    /\ task[p] # NoPath
    /\ fingerprint_file(task[p]) # <<>>
    /\ \/ /\ pc[p] = "idle"
          /\ add_song_call(p)
          /\ call'[p].filepath = task[p]
       \/ add_song_check(p)
       \/ add_song_flush(p)
       \/ add_song_bulk_insert(p)
       \/ add_song_commit(p)
       \/ add_song_fail(p)

\* the status returned with the value of add_song: 'added' for a song_id
\* that is true, 'skipped' otherwise, 'failed' for an exception
StatusOf(r) ==
    IF r.kind = "raised"
    THEN "failed"
    ELSE IF r.kind = "id" /\ r.id # 0
    THEN "added"
    ELSE "skipped"

process_single_song_return(p) ==
    /\ task[p] # NoPath
    /\ pc[p] = "done"
    /\ Report(p, StatusOf(ret[p]), ret[p].msg)
    /\ UNCHANGED <<store_vars, match_vars, api_vars, fp_vars, audio_files>>

NextUpload ==
    \/ add_songs_parallel_start
    \/ \E p \in Procs :
          \/ process_single_song_call(p)
          \/ process_single_song_except(p)
          \/ process_single_song_no_hashes(p)
          \/ process_single_song_add_song(p)
          \/ process_single_song_return(p)

SpecUpload == Init /\ [][NextUpload]_vars

(***************************************************************************)
(* Properties of the store operations.                                     *)
(***************************************************************************)
IsAddSong(p) == call[p].op = "add_song"
FileHashOf(p) == generate_file_hash(call[p].filepath)
RowsOf(id) == SelectSeq(fingerprints, LAMBDA r : r.song_id = id)

\* the duplicate check of call p is about to find a committed song
DuplicateFound(p) ==
    /\ pc[p] = "add_check"
    /\ FileHashOf(p) # NoDigest
    /\ \E s \in songs : s.file_hash = FileHashOf(p)

\* C6: an add_song that starts its duplicate check when a song of the same
\* bytes is committed (the second of two calls in sequence) changes neither
\* table and returns that song's id, whatever title it was given; the store
\* holds one song per file content, with the tuple list of one ingest, and
\* every id add_song returned is the id of the song with the file's content.
C6_SecondIngestChangesNothing ==
    /\ [](\A s, t \in songs : s.file_hash = t.file_hash => s = t)
    /\ [](\A p \in Procs :
            (IsAddSong(p) /\ pc[p] = "done" /\ ret[p].kind = "id") =>
                /\ \E s \in songs : s.id = ret[p].id /\ s.file_hash = FileHashOf(p)
                /\ StoredTuples(ret[p].id) = call[p].fingerprints)
    /\ [][\A p \in Procs :
            (DuplicateFound(p) /\ pc'[p] # pc[p]) =>
                /\ songs' = songs
                /\ fingerprints' = fingerprints
                /\ pc'[p] = "done"
                /\ ret'[p].kind = "id"
                /\ \E s \in songs : s.file_hash = FileHashOf(p) /\ s.id = ret'[p].id]_vars

\* a second call, given the bytes of a committed song under another title,
\* has returned the committed song's id without inserting anything
C6_Witness ==
    \E p \in Procs :
        /\ IsAddSong(p) /\ pc[p] = "done" /\ ret[p].kind = "id"
        /\ call[p].song_id = 0
        /\ \E s \in songs : s.id = ret[p].id /\ s.title # call[p].title
        /\ Cardinality(songs) = 1
        /\ Len(fingerprints) = Len(call[p].fingerprints)

\* C7: two add_song calls for the same file content both return the same
\* song id (unless the store itself failed under one of them), and the store
\* ends with one song of that content and the tuples of one ingest.
C7_ParallelIngestReturnsSameId ==
    \A p, q \in Procs :
        ( /\ p # q
          /\ IsAddSong(p) /\ IsAddSong(q)
          /\ pc[p] = "done" /\ pc[q] = "done"
          /\ FileHashOf(p) # NoDigest /\ FileHashOf(p) = FileHashOf(q)
          /\ ret[p].error # "StoreError" /\ ret[q].error # "StoreError" )
        => /\ ret[p].kind = "id"
           /\ ret[q] .kind = "id"
           /\ ret[p].id = ret[q].id
           /\ Cardinality({s \in songs : s.file_hash = FileHashOf(p)}) = 1
           /\ Len(RowsOf(ret[p].id)) = Len(call[p].fingerprints)

C9_DeleteCascades ==
    /\ [](\A i \in 1..Len(fingerprints) :
            \E s \in songs : s.id = fingerprints[i].song_id)
    /\ [][\A p \in Procs :
            ( /\ call[p].op = "delete_song"
              /\ pc[p] = "del_commit" /\ pc'[p] = "done"
              /\ call[p].song_id \in SongIds ) =>
                /\ songs' = {s \in songs : s.id # call[p].song_id}
                /\ \A i \in 1..Len(fingerprints') :
                      fingerprints'[i].song_id # call[p].song_id
                /\ \A s \in songs' : StoredTuples(s.id)' = StoredTuples(s.id)
                /\ Len(fingerprints') =
                      Len(fingerprints) - Len(RowsOf(call[p].song_id))]_vars

\* a delete_song has removed a song while another song and its tuples remain
C9_Witness ==
    \E p \in Procs :
        /\ call[p].op = "delete_song" /\ pc[p] = "done"
        /\ ret[p].msg = "Deleted song"
        /\ call[p].song_id \notin SongIds
        /\ songs # {}
        /\ fingerprints # <<>>

\* C10: get_database_stats returns the numbers of committed song rows and
\* fingerprint rows at the time of the call.
C10_StatsAreCommittedCounts ==
    [][\A p \in Procs :
          get_database_stats(p) =>
              ret'[p] = RetStats(Cardinality(songs), Len(fingerprints))]_vars

(***************************************************************************)
(* Properties of find_matches.                                             *)
(***************************************************************************)
\* counts[song_id][time_delta] of an accumulator, 0 where nothing was counted
CountOf(m, song_id, time_delta) ==
    LET counts == UNION {{m[i].deltas[j].count :
                             j \in {k \in 1..Len(m[i].deltas) :
                                       m[i].deltas[k].time_delta = time_delta}} :
                            i \in {k \in 1..Len(m) : m[k].song_id = song_id}}
    IN  IF counts = {} THEN 0 ELSE CHOOSE c \in counts : TRUE

DeltasOf(m, song_id) ==
    UNION {{m[i].deltas[j].time_delta : j \in 1..Len(m[i].deltas)} :
              i \in {k \in 1..Len(m) : m[k].song_id = song_id}}

\* the peak of a song: its largest count over all deltas
PeakOf(m, song_id) ==
    LET counts == {CountOf(m, song_id, d) : d \in DeltasOf(m, song_id)} \cup {0}
    IN  CHOOSE c \in counts : \A d \in counts : d <= c

SongsIn(m) == {m[i].song_id : i \in 1..Len(m)}

\* the peak over all songs and deltas
Peak(m) ==
    LET tops == {PeakOf(m, id) : id \in SongsIn(m)} \cup {0}
    IN  CHOOSE c \in tops : \A d \in tops : d <= c

Returned == m_pc = "done"

\* the query is made of at least 5 stored tuples of the song
QueryOfSong(id) ==
    /\ Len(query_fingerprints) >= MIN_MATCHING_FINGERPRINTS
    /\ \A i \in 1..Len(query_fingerprints) :
          \E k \in 1..Len(StoredTuples(id)) :
              StoredTuples(id)[k] = query_fingerprints[i]

C3_TieGoesToSmallestId ==
    (Returned /\ result.matched) =>
        \A id \in SongsIn(matches) :
            PeakOf(matches, id) = Peak(matches) => result.song_id <= id

\* C4: the alignment_offset returned is a delta of the winning song whose
\* count is that song's peak, and the smallest such delta.
C4_AlignmentIsSmallestPeakDelta ==
    (Returned /\ result.matched) =>
        /\ CountOf(matches, result.song_id, result.alignment_offset)
              = PeakOf(matches, result.song_id)
        /\ \A d \in DeltasOf(matches, result.song_id) :
              CountOf(matches, result.song_id, d) = PeakOf(matches, result.song_id)
                  => result.alignment_offset <= d

\* the call left the loop at the early exit, and the run with the early exit
\* disabled has processed every batch
StoppedEarly == Returned /\ Peak(matches) > EARLY_EXIT
FullRunDone == full_batches * BATCH_SIZE >= Len(sampled_fingerprints)
FullResult == MatchResult(full_matches, query_fingerprints, songs)

NoPosting ==
    \A i \in 1..Len(sampled_fingerprints) :
        \A k \in 1..Len(fingerprints) :
            fingerprints[k].hash_value # sampled_fingerprints[i][1]

\* C15: find_matches returns no match for an empty query, having looked up
\* no batch, and returns no match for a query none of whose retained hashes
\* has a posting in the store.
C15_NoMatchWithoutPostings ==
    Returned =>
        /\ query_fingerprints = <<>> =>
              (~result.matched /\ batches_processed = 0 /\ matches = <<>>)
        /\ NoPosting => (~result.matched /\ matches = <<>>)

\* a query of 5 items or more was looked up in a store that holds rows, none
\* of them for a hash of the query, and no match was returned
C15_Witness ==
    /\ Returned
    /\ Len(query_fingerprints) >= MIN_MATCHING_FINGERPRINTS
    /\ fingerprints # <<>>
    /\ NoPosting
    /\ batches_processed >= 1
    /\ ~result.matched

\* the retained query items of the batches processed so far
Processed ==
    SubSeq(sampled_fingerprints, 1,
           Min(batches_processed * BATCH_SIZE, Len(sampled_fingerprints)))

\* the number of pairs (processed query item (h, q), stored row (h, t, rid))
\* with t - q = time_delta
PairCount(rid, time_delta) ==
    Cardinality({<<i, k>> \in (1..Len(Processed)) \X
                             {n \in 1..Len(fingerprints) :
                                 fingerprints[n].song_id = rid} :
                    /\ fingerprints[k].hash_value = Processed[i][1]
                    /\ fingerprints[k].time_offset - Processed[i][2] = time_delta})

AllDeltas == {t - q : t \in Offsets, q \in Offsets}

\* C17: after the processed batches every count of the accumulator is the
\* number of (query item, stored row) pairs of its song and delta, each pair
\* counted once, and no song or delta is held twice.
C17_CountsAreExact ==
    m_pc \in {"loop", "rank", "done"} =>
        /\ \A rid \in SongIds \cup SongsIn(matches) :
              \A d \in AllDeltas \cup DeltasOf(matches, rid) :
                  CountOf(matches, rid, d) = PairCount(rid, d)
        /\ \A i, j \in 1..Len(matches) :
              matches[i].song_id = matches[j].song_id => i = j
        /\ \A i \in 1..Len(matches) :
              \A j, k \in 1..Len(matches[i].deltas) :
                  matches[i].deltas[j].time_delta = matches[i].deltas[k].time_delta
                      => j = k

\* a song that holds one hash at two offsets was counted over two batches:
\* the hash repeats inside the query and across the batches, and each of
\* the two deltas has a count of 100
C17_Witness ==
    /\ Returned
    /\ batches_processed = 2
    /\ \E rid \in SongsIn(matches) :
          /\ Cardinality(DeltasOf(matches, rid)) = 2
          /\ \A d \in DeltasOf(matches, rid) :
                CountOf(matches, rid, d) = BATCH_SIZE

\* a step that looks a batch up
IsLookup == m_pc = "loop" /\ batches_processed' # batches_processed

C20_ConfidenceFields ==
    (Returned /\ result.matched) =>
        /\ result.confidence = Peak(matches)
        /\ result.confidence_percentage
              = Float(Min(100, (result.confidence * 100) \div 100), 0)
        /\ result.confidence >= MIN_MATCHING_FINGERPRINTS
        /\ ~FloatLess(result.confidence_percentage, MIN_CONFIDENCE_PERCENTAGE)
        /\ \/ result.confidence_percentage.units < 100
           \/ result.confidence_percentage = Float(100, 0)

(***************************************************************************)
(* Properties of the endpoints.                                            *)
(***************************************************************************)
Responded(endpoints) == h_pc = "responded" /\ request.endpoint \in endpoints

\* C11: a song whose deletion delete_song has reported is in neither table,
\* no later find_matches counts a tuple of it or returns it, and an identify
\* answered on a store left without songs says matched=false.
C11_DeletedSongIsGone ==
    /\ \A id \in deleted :
          /\ id \notin SongIds
          /\ \A i \in 1..Len(fingerprints) : fingerprints[i].song_id # id
          /\ id \notin SongsIn(matches)
          /\ result.matched => result.song_id # id
          /\ (request.endpoint = "identify_song" /\ response.matched) =>
                response.song_id # id
    /\ (deleted # {} /\ songs = {} /\ Responded({"identify_song"})) =>
          ~response.matched

\* after the only song was deleted, a recording of 5 tuples that every
\* uploaded song holds was identified and answered with matched=false
C11_Witness ==
    /\ deleted # {}
    /\ songs = {}
    /\ Responded({"identify_song"})
    /\ request.recording = Run(Tuple("a", 0), MIN_MATCHING_FINGERPRINTS)
    /\ response.status_code = 200
    /\ ~response.matched

\* C12: fetching or deleting a song id that is not in the store is answered
\* with 404 and leaves both tables as they were.
C12_MissingIdIsNotFound ==
    ( /\ Responded({"get_song", "delete_song"})
      /\ request.song_id \notin {s.id : s \in store_before[1]} )
    => /\ response.status_code = 404
       /\ <<songs, fingerprints>> = store_before

\* the request failed for a reason of the client's
ClientError ==
    response.detail \in {"Unsupported file type", "Could not generate fingerprints"}

\* C13: an upload with a disallowed extension and an upload or identify of
\* audio without fingerprints are answered with a 4xx status, and a 5xx
\* status answers no failure of the client's.
C13_ClientErrorsAreFourHundreds ==
    Responded({"upload_song", "identify_song"}) =>
        /\ ClientError =>
              (response.status_code >= 400 /\ response.status_code <= 499)
        /\ response.status_code >= 500 => ~ClientError

\* C14: when an upload or identify request has been answered, the temporary
\* file created for it is no longer on disk.
C14_TemporaryFileIsRemoved ==
    Responded({"upload_song", "identify_song"}) => ~tmp_exists

\* C16: from the arrival of an identify request to its response both
\* tables stay as the request found them, and no step of find_matches
\* changes a table.
C16_IdentifyIsReadOnly ==
    /\ [](request.endpoint = "identify_song" =>
            <<songs, fingerprints>> = store_before)
    /\ [][(m_pc' # m_pc \/ matches' # matches \/ result' # result) =>
            (songs' = songs /\ fingerprints' = fingerprints)]_vars

\* an identify request was answered with a match on a store of two songs
C16_Witness ==
    /\ Responded({"identify_song"})
    /\ response.matched
    /\ Cardinality(songs) = 2
    /\ Len(fingerprints) = 3

(***************************************************************************)
(* Properties of add_song without a readable file.                         *)
(***************************************************************************)
\* C26: an add_song that was given no filepath, or a path that does not
\* exist, returns the id of a new song that is stored with all the
\* fingerprints of the call.
C26_StoredWithoutFile ==
    \A p \in Procs :
        ( /\ IsAddSong(p)
          /\ pc[p] = "done"
          /\ FileHashOf(p) = NoDigest )
        => /\ ret[p].kind = "id"
           /\ ret[p].id \in SongIds
           /\ StoredTuples(ret[p].id) = call[p].fingerprints

(***************************************************************************)
(* Properties of the fingerprinter.                                        *)
(***************************************************************************)
Hashed == f_pc = "hashed"
PeakTime(i) == peaks[i + 1][1]
PeakFreq(i) == peaks[i + 1][2]

\* the tuples an anchor at index i of n landmarks is to emit, and the
\* tuples the anchors before it are to emit
Emitted(i, n) == Min(fan_value, n - 1 - i)
EmittedBefore(i, n) ==
    LET full == IF n > fan_value THEN n - fan_value ELSE 0
    IN  IF i <= full
        THEN fan_value * i
        ELSE fan_value * full
                 + (i - full) * (n - 1) - ((i - full) * (full + i - 1)) \div 2

\* C21: of n landmarks, the one at index i gives exactly min(fan_value,
\* n - 1 - i) tuples, one for each of the landmarks i+1 .. i+fan_value in
\* list order, each holding the hash of the pair and the anchor's time.
C21_FanOutPerAnchor ==
    Hashed =>
        LET n == Len(peaks)
        IN  /\ Len(hashes) = EmittedBefore(n, n)
            /\ \A i \in 0..(n - 1) :
                   \A k \in 1..Emitted(i, n) :
                       hashes[EmittedBefore(i, n) + k] =
                           <<Sha1(HashString(PeakFreq(i), PeakFreq(i + k),
                                             PeakTime(i), PeakTime(i + k))),
                             PeakTime(i)>>

\* hashes were generated from more landmarks than an anchor may pair with
C21_Witness ==
    /\ Hashed
    /\ Len(peaks) = fan_value + 2
    /\ Len(hashes) = 4 * fan_value

\* C22: the time difference of every pair generate_hashes hashes lies
\* between 0 and target_zone_width.
C22_TimeDeltaWithinTargetZone ==
    Hashed =>
        LET pairs == PairsFrom(0, Len(peaks))
        IN  \A k \in 1..Len(pairs) :
                LET time_delta == PeakTime(pairs[k][2]) - PeakTime(pairs[k][1])
                IN  0 <= time_delta /\ time_delta <= target_zone_width

\* the landmark list with k added to every time
Shifted(peak_list, k) ==
    [i \in 1..Len(peak_list) |-> <<peak_list[i][1] + k, peak_list[i][2]>>]
Shifts == {1, target_zone_width}

\* C23: the tuples are a function of the landmark list, pairs with equal
\* (f_i, f_j, time difference) have equal hashes, and the list with k added
\* to every time gives the same hashes with k added to every anchor time.
C23_HashesAreShiftInvariant ==
    Hashed =>
        LET pairs == PairsFrom(0, Len(peaks))
            Triple(k) == <<PeakFreq(pairs[k][1]), PeakFreq(pairs[k][2]),
                           PeakTime(pairs[k][2]) - PeakTime(pairs[k][1])>>
        IN  /\ hashes = generate_hashes(peaks)
            /\ \A a \in 1..Len(pairs) : \A b \in (a + 1)..Len(pairs) :
                   Triple(a) = Triple(b) => hashes[a][1] = hashes[b][1]
            /\ \A k \in Shifts :
                   generate_hashes(Shifted(peaks, k)) =
                       [i \in 1..Len(hashes) |-> <<hashes[i][1], hashes[i][2] + k>>]

\* two anchors at different times gave the same hash
C23_Witness ==
    /\ Hashed
    /\ \E a \in 1..Len(hashes) : \E b \in 1..Len(hashes) :
           hashes[a][1] = hashes[b][1] /\ hashes[a][2] # hashes[b][2]

\* C24: the landmark list of find_peaks ascends in time and, among landmarks
\* of one time, in frequency.
C24_LandmarksAreSorted ==
    f_pc \in {"peaks", "hashed"} =>
        \A i \in 1..(Len(peaks) - 1) :
            \/ peaks[i][1] < peaks[i + 1][1]
            \/ peaks[i][1] = peaks[i + 1][1] /\ peaks[i][2] < peaks[i + 1][2]

\* two landmarks of one time, and a landmark that precedes one of a lower
\* frequency bin
C24_Witness ==
    /\ f_pc = "peaks"
    /\ \E i \in 1..(Len(peaks) - 1) : peaks[i][1] = peaks[i + 1][1]
    /\ \E i \in 1..(Len(peaks) - 1) : peaks[i][2] > peaks[i + 1][2]

\* the cells of the neighbourhood of the cell (bin f, frame t)
Neighbourhood(f, t) ==
    {c \in Bins \X Frames : c[1] - f \in Window /\ c[2] - t \in Window}

\* C25: a landmark is the lowest (t, f) among the cells of its neighbourhood
\* that hold its value, and no landmark lies in the first or last row or
\* column.
C25_OneLandmarkPerTie ==
    f_pc \in {"peaks", "hashed"} =>
        \A i \in 1..Len(peaks) :
            LET t == peaks[i][1]
                f == peaks[i][2]
            IN  /\ ~IsBorder(<<f, t>>)
                /\ \A c \in Neighbourhood(f, t) :
                       spectrogram[c] = spectrogram[<<f, t>>] =>
                           (t < c[2] \/ (t = c[2] /\ f <= c[1]))

(***************************************************************************)
(* Properties of the batch uploader.                                       *)
(***************************************************************************)
Statuses == {"added", "skipped", "failed"}
BatchDone ==
    /\ stats.total > 0
    /\ audio_files = <<>>
    /\ \A p \in Procs : task[p] = NoPath

\* C27: every file gets one status among 'added', 'skipped' and 'failed'; a
\* file that add_song found in the store is 'skipped'; at the end of the
\* batch 'added' counts the songs inserted and the three counts add up to
\* the number of files.
C27_StatusesOfTheBatch ==
    /\ \A i \in 1..Len(outcome) :
          /\ outcome[i].status \in Statuses
          /\ \A j \in 1..Len(outcome) : outcome[i].file = outcome[j].file => i = j
          /\ outcome[i].printed = "Song already exists" =>
                outcome[i].status = "skipped"
    /\ BatchDone =>
          /\ Len(outcome) = stats.total
          /\ stats.added + stats.skipped + stats.failed = stats.total
          /\ stats.added = Cardinality(songs)

(***************************************************************************)
(* Properties of find_matches under row orders and concurrent commits.     *)
(***************************************************************************)
\* the song, the score and the alignment of a result
Verdict(r) == <<r.matched, r.song_id, r.confidence, r.alignment_offset>>

\* C28: whatever the order in which the lookups return their rows, a call
\* on the committed store returns the same song id, score and
\* alignment_offset.
C28_RowOrderDoesNotMatter ==
    Returned =>
        \A r \in find_matches_on(<<songs, fingerprints>>, query_fingerprints) :
            Verdict(r) = Verdict(result)

(***************************************************************************)
(* Properties of an identify request that overlaps one writer.             *)
(***************************************************************************)
\* the lookups of the request have chosen a song whose row is gone
WinnerIsGone ==
    /\ h_pc = "identify_db"
    /\ m_pc = "done"
    /\ matches # <<>>
    /\ BestMatch(matches).best_match \notin SongIds

\* C29: when the winning song is deleted after the lookups and before a read
\* of its row (the one inside find_matches or the endpoint's get_song), the
\* identify request is answered 200 with matched=false, confidence 0 and
\* confidence_percentage 0; and no identify response says matched=true
\* without the details of a song.
C29_DeletedWinnerIsNoMatch ==
    /\ [][(WinnerIsGone /\ h_pc' = "responded")
            => response' = [NoResponse EXCEPT !.status_code = 200]]_vars
    /\ [](Responded({"identify_song"}) /\ response.matched
            => /\ response.status_code = 200
               /\ response.song_id # 0
               /\ response.title # None)

C29_Witness ==
    /\ Responded({"identify_song"})
    /\ request.recording = Run(Tuple("a", 0), MIN_MATCHING_FINGERPRINTS)
    /\ store_before[2] # <<>>
    /\ songs = {}
    /\ pc[Writer] = "done"
    /\ ret[Writer].msg = "Deleted song"
    /\ response = [NoResponse EXCEPT !.status_code = 200]

\* C30: a find_matches call that overlaps one commit of add_song or
\* delete_song returns a result it may also return when it runs wholly on
\* the store before the commit or wholly on the store after it.
C30_ResultOfOneStore ==
    (h_pc = "identify_db" /\ m_pc = "done")
        => result \in find_matches_on(store_before, query_fingerprints)
                      \cup find_matches_on(<<songs, fingerprints>>, query_fingerprints)

====
